---- MODULE Spec2Model ----
(***************************************************************************)
(* Ledgerly (src/script.js): the browser application class `Ledgerly` and  *)
(* the data manager it drives.                                             *)
(*                                                                         *)
(* script.js holds the UI controller only.  GitHubDataManager and          *)
(* GitHubAPIClient (constructed at script.js:23-24) live in a file that is *)
(* not part of src/; they are modelled here from spec.md sections 2 to 7   *)
(* and every such definition says so.                                      *)
(*                                                                         *)
(* An event handler of script.js is an async function: it runs without     *)
(* interruption up to its `await` of a remote round trip, and its          *)
(* continuation (the code after the await, with catch and finally) runs    *)
(* when the round trip answers.  Each handler is therefore modelled by two *)
(* actions: the handler up to the await, and the continuation.  A handler  *)
(* whose data-manager call fails before any remote call runs its catch and *)
(* finally within the first action.                                        *)
(*                                                                         *)
(* Nothing in script.js tests whether a round trip is in flight before it  *)
(* runs a handler: showLoading and hideLoading (script.js:53-64) only set  *)
(* the text and a CSS class of the #loading-overlay element, which no      *)
(* handler reads.  The overlay is therefore no part of the state, and the  *)
(* handlers are enabled whenever the in-flight queue has room.  Likewise   *)
(* what render() writes to the page (the summary texts and the rows,       *)
(* script.js:273-319) and the theme are written and never read back by     *)
(* script.js: they are output, not state.  Of the page, the state holds    *)
(* the value of #transaction-type, which handleFormSubmit reads            *)
(* (script.js:168).  What render() can do to the state is throw.           *)
(*                                                                         *)
(* The page: the elements script.js looks up by id or selector exist, so   *)
(* the DOM calls do not throw.  What can throw in init() is the            *)
(* construction of the client and the manager (script.js:23-24) and the    *)
(* access to localStorage of loadThemePreference (script.js:26, 86).       *)
(* `app` is a global (script.js:344), through which the rows call          *)
(* editTransaction and deleteTransaction (script.js:313-314): the methods  *)
(* of the class can be called in every state, also when init() failed, and *)
(* every method that changes a variable of this module has an action.      *)
(* The month selector's listener is an anonymous function and runs only    *)
(* once setupEventListeners has registered it.  Each run of a handler is   *)
(* one step: when setupEventListeners has run more than once, an event     *)
(* runs its handler as many times, which is as many steps of the action.   *)
(* The methods that touch only the theme, the loading overlay or no state  *)
(* at all (toggleTheme, applyTheme, saveThemePreference,                   *)
(* loadThemePreference, showLoading, hideLoading, formatCurrency,          *)
(* formatDate, escapeHtml) alert nothing and change nothing else: a call   *)
(* of one of them is a step like Render.                                   *)
(*                                                                         *)
(* Strings: a string the code trims or parses (the description and the     *)
(* amount field) is the sequence of its UTF-16 code units, as              *)
(* String.prototype.charCodeAt gives them; dates, years and months, which  *)
(* the code only compares and passes on, are strings.                      *)
(*                                                                         *)
(* Numbers: a Number of the code is NaN, an infinity, or a finite decimal  *)
(* (sign, significant digits, power of ten).  parseFloat is modelled on    *)
(* the characters of its argument; the value it gives is the decimal the   *)
(* literal denotes, which a double holds up to rounding in its 17th digit, *)
(* with overflow to Infinity and underflow to 0 exactly where a double has *)
(* them.                                                                   *)
(***************************************************************************)
EXTENDS Integers, Sequences, FiniteSets, TLC

VARIABLES
    currentYear,      \* Ledgerly.currentYear                (script.js:13)
    currentMonth,     \* Ledgerly.currentMonth               (script.js:14)
    editingId,        \* Ledgerly.editingId, NoId for null   (script.js:15)
    transactionType,  \* value of the #transaction-type input (script.js:160,168)
    dm,               \* Ledgerly.dataManager: loaded month and in-memory document
    remote,           \* the remote store: one JSON document per month, or absent
    pending,          \* remote round trips in flight, with their awaiting handler
    alerted,          \* the alert() of the handler that ran last, <<>> if none
    roundTrips,       \* remote round trips started so far
    listening         \* setupEventListeners has run (script.js:27, 100-133)

vars == <<currentYear, currentMonth, editingId, transactionType, dm,
          remote, pending, alerted, roundTrips, listening>>

----------------------------------------------------------------------------
(* Bounds of the model.                                                    *)

\* The ids addTransaction generates are drawn from 1..MaxId.
MaxId == 2
\* Remote round trips that may be awaiting their answer at once.
MaxInFlight == 2
\* Remote round trips started over a run.
MaxRoundTrips == 3

----------------------------------------------------------------------------
(* Values.                                                                 *)

\* editingId = null (script.js:15)
NoId == 0

Ids == 1..MaxId

\* The values of the month selector: "<year>-<month>", split at script.js:103.
SelectorValues ==
    { [year |-> "2024", month |-> "01"], [year |-> "2024", month |-> "02"] }

\* currentYear and currentMonth as the constructor leaves them (script.js:
\* 13-14), and the month of a data manager before any load.
NoMonth == [year |-> "", month |-> ""]

\* The (year, month) pairs loadMonthData is called with: a value of the
\* selector, or the fields as the constructor left them.
Months == SelectorValues \cup {NoMonth}

Types == {"income", "expense"}

\* What a user leaves in the date input: empty, or a calendar date.
DateInputs == {"", "2024-01-05"}

\* Calendar order of the dates of the model.
DateRank(d) == CASE d = "2024-01-05" -> 5
                 [] d = "2024-01-10" -> 10
                 [] OTHER -> 0

\* What a user leaves in the description input: " \t", "\u000B\u3000" and
\* "\na ".
DescriptionInputs == { <<32, 9>>, <<11, 12288>>, <<10, 97, 32>> }

\* What a user leaves in the amount input: "", "a", ".", "0", "-5",
\* "\t.25e1", "1e-400", "Infinity" and "-Infinity".
AmountInputs ==
    { <<>>, <<97>>, <<46>>, <<48>>, <<45, 53>>, <<9, 46, 50, 53, 101, 49>>,
      <<49, 101, 45, 52, 48, 48>>,
      <<73, 110, 102, 105, 110, 105, 116, 121>>,
      <<45, 73, 110, 102, 105, 110, 105, 116, 121>> }

\* The form as a user submits it: every field filled in well, but for one field
\* at most, which holds any of its inputs above.
FormInputs ==
    LET date        == "2024-01-05"
        description == <<10, 97, 32>>
        amount      == <<9, 46, 50, 53, 101, 49>>
    IN  { [date |-> d, description |-> description, amount |-> amount] :
            d \in DateInputs }
        \cup { [date |-> date, description |-> s, amount |-> amount] :
                s \in DescriptionInputs }
        \cup { [date |-> date, description |-> description, amount |-> a] :
                a \in AmountInputs }

EmptyDocument == [income |-> <<>>, expenses |-> <<>>]

\* No document at the month's path.
Absent == [income |-> <<>>, expenses |-> <<>>, exists |-> FALSE]

----------------------------------------------------------------------------
(* Pure functions of script.js.                                            *)

\* The white space String.prototype.trim strips and parseFloat skips
\* (ECMAScript WhiteSpace and LineTerminator): U+0009 tab, U+000A line feed,
\* U+000B vertical tab, U+000C form feed, U+000D carriage return, U+0020 space,
\* U+00A0 no-break space, U+1680, U+2000 to U+200A, U+2028 line separator,
\* U+2029 paragraph separator, U+202F, U+205F, U+3000 and U+FEFF.
WhiteSpace ==
    {9, 10, 11, 12, 13, 32, 160, 5760} \cup (8192..8202)
        \cup {8232, 8233, 8239, 8287, 12288, 65279}

\* s without its first n characters.
Drop(s, n) == SubSeq(s, n + 1, Len(s))

\* s, last character first.
Reversed(s) == [i \in 1..Len(s) |-> s[Len(s) + 1 - i]]

\* The number of characters at the head of s that are in set.
LeadingCount(s, set) ==
    IF \A i \in 1..Len(s) : s[i] \in set THEN Len(s)
    ELSE (CHOOSE i \in 1..Len(s) :
            s[i] \notin set /\ \A j \in 1..(i - 1) : s[j] \in set) - 1

TrimStart(s) == Drop(s, LeadingCount(s, WhiteSpace))

TrimEnd(s) == SubSeq(s, 1, Len(s) - LeadingCount(Reversed(s), WhiteSpace))

\* String.prototype.trim on the description (script.js:169).
Trim(s) == TrimEnd(TrimStart(s))

\* The code units of "0" to "9".
Digits == 48..57

\* The digit a digit character stands for.
DigitValue(c) == c - 48

\* The digits the digit characters of s stand for.
DigitValues(s) == [i \in 1..Len(s) |-> DigitValue(s[i])]

\* The longest prefix of s made of digits.
DigitPrefix(s) == SubSeq(s, 1, LeadingCount(s, Digits))

\* The value of a sequence of digits, read left to right.
RECURSIVE DecimalValue(_)
DecimalValue(ds) ==
    IF ds = <<>> THEN 0
    ELSE 10 * DecimalValue(SubSeq(ds, 1, Len(ds) - 1)) + ds[Len(ds)]

\* s begins with the characters of p.
StartsWith(s, p) == Len(s) >= Len(p) /\ SubSeq(s, 1, Len(p)) = p

StripLeadingZeros(ds) == Drop(ds, LeadingCount(ds, {0}))

StripTrailingZeros(ds) ==
    SubSeq(ds, 1, Len(ds) - LeadingCount(Reversed(ds), {0}))

\* A Number of the code.  A finite number is sign, significant digits (no
\* leading and no trailing zero; none for zero) and a power of ten:
\* 0.digits... is not meant, the value is the integer `digits` times 10^exp.
\* An amount parsed from a stored document can also be null (see ToJson).
NaN == [kind |-> "nan", negative |-> FALSE, digits |-> <<>>, exp |-> 0]

Null == [kind |-> "null", negative |-> FALSE, digits |-> <<>>, exp |-> 0]

Infinite(negative) ==
    [kind |-> "inf", negative |-> negative, digits |-> <<>>, exp |-> 0]

Finite(negative, digits, exp) ==
    LET Normalised(stripped, significant) ==
            [kind |-> "num", negative |-> negative, digits |-> significant,
             exp |-> IF significant = <<>> THEN 0
                     ELSE exp + Len(stripped) - Len(significant)]
    IN  Normalised(StripLeadingZeros(digits),
                   StripTrailingZeros(StripLeadingZeros(digits)))

\* `!amount` (script.js:172): true of NaN, 0 and -0.
IsFalsy(n) == n.kind = "nan" \/ (n.kind = "num" /\ n.digits = <<>>)

\* `amount <= 0` (script.js:172): false of NaN.
IsAtMostZero(n) ==
    \/ n.kind = "inf" /\ n.negative
    \/ n.kind = "num" /\ (n.negative \/ n.digits = <<>>)

\* `amount > 0`: false of NaN, and of null, which compares as 0.
IsPositive(n) ==
    /\ ~n.negative
    /\ n.kind = "inf" \/ (n.kind = "num" /\ n.digits # <<>>)

\* The digits ds, read as 0.ds, are above 0.bound (neither ends in a zero).
DigitsAbove(ds, bound) ==
    LET shared == IF Len(ds) < Len(bound) THEN Len(ds) ELSE Len(bound)
    IN  IF \A i \in 1..shared : ds[i] = bound[i]
        THEN Len(ds) > Len(bound)
        ELSE LET first == CHOOSE i \in 1..shared :
                            /\ ds[i] # bound[i]
                            /\ \A j \in 1..(i - 1) : ds[j] = bound[j]
             IN  ds[first] > bound[first]

\* The 309 digits of 2^1024 - 2^970 = 1.797693134862315807937...e308, half way
\* from the largest double to 2^1024: a literal from there on is Infinity.
OverflowDigits ==
    <<1, 7, 9, 7, 6, 9, 3, 1, 3, 4, 8, 6, 2, 3, 1, 5, 8, 0, 7, 9, 3, 7, 2, 8, 9,
      7, 1, 4, 0, 5, 3, 0, 3, 4, 1, 5, 0, 7, 9, 9, 3, 4, 1, 3, 2, 7, 1, 0, 0, 3,
      7, 8, 2, 6, 9, 3, 6, 1, 7, 3, 7, 7, 8, 9, 8, 0, 4, 4, 4, 9, 6, 8, 2, 9, 2,
      7, 6, 4, 7, 5, 0, 9, 4, 6, 6, 4, 9, 0, 1, 7, 9, 7, 7, 5, 8, 7, 2, 0, 7, 0,
      9, 6, 3, 3, 0, 2, 8, 6, 4, 1, 6, 6, 9, 2, 8, 8, 7, 9, 1, 0, 9, 4, 6, 5, 5,
      5, 5, 4, 7, 8, 5, 1, 9, 4, 0, 4, 0, 2, 6, 3, 0, 6, 5, 7, 4, 8, 8, 6, 7, 1,
      5, 0, 5, 8, 2, 0, 6, 8, 1, 9, 0, 8, 9, 0, 2, 0, 0, 0, 7, 0, 8, 3, 8, 3, 6,
      7, 6, 2, 7, 3, 8, 5, 4, 8, 4, 5, 8, 1, 7, 7, 1, 1, 5, 3, 1, 7, 6, 4, 4, 7,
      5, 7, 3, 0, 2, 7, 0, 0, 6, 9, 8, 5, 5, 5, 7, 1, 3, 6, 6, 9, 5, 9, 6, 2, 2,
      8, 4, 2, 9, 1, 4, 8, 1, 9, 8, 6, 0, 8, 3, 4, 9, 3, 6, 4, 7, 5, 2, 9, 2, 7,
      1, 9, 0, 7, 4, 1, 6, 8, 4, 4, 4, 3, 6, 5, 5, 1, 0, 7, 0, 4, 3, 4, 2, 7, 1,
      1, 5, 5, 9, 6, 9, 9, 5, 0, 8, 0, 9, 3, 0, 4, 2, 8, 8, 0, 1, 7, 7, 9, 0, 4,
      1, 7, 4, 4, 9, 7, 7, 9, 2>>

\* The 752 digits of 5^1075, those of 2^-1075 = 2.470328229206232720882...e-324,
\* half the smallest double: a literal up to there is 0.
UnderflowDigits ==
    <<2, 4, 7, 0, 3, 2, 8, 2, 2, 9, 2, 0, 6, 2, 3, 2, 7, 2, 0, 8, 8, 2, 8, 4, 3,
      9, 6, 4, 3, 4, 1, 1, 0, 6, 8, 6, 1, 8, 2, 5, 2, 9, 9, 0, 1, 3, 0, 7, 1, 6,
      2, 3, 8, 2, 2, 1, 2, 7, 9, 2, 8, 4, 1, 2, 5, 0, 3, 3, 7, 7, 5, 3, 6, 3, 5,
      1, 0, 4, 3, 7, 5, 9, 3, 2, 6, 4, 9, 9, 1, 8, 1, 8, 0, 8, 1, 7, 9, 9, 6, 1,
      8, 9, 8, 9, 8, 2, 8, 2, 3, 4, 7, 7, 2, 2, 8, 5, 8, 8, 6, 5, 4, 6, 3, 3, 2,
      8, 3, 5, 5, 1, 7, 7, 9, 6, 9, 8, 9, 8, 1, 9, 9, 3, 8, 7, 3, 9, 8, 0, 0, 5,
      3, 9, 0, 9, 3, 9, 0, 6, 3, 1, 5, 0, 3, 5, 6, 5, 9, 5, 1, 5, 5, 7, 0, 2, 2,
      6, 3, 9, 2, 2, 9, 0, 8, 5, 8, 3, 9, 2, 4, 4, 9, 1, 0, 5, 1, 8, 4, 4, 3, 5,
      9, 3, 1, 8, 0, 2, 8, 4, 9, 9, 3, 6, 5, 3, 6, 1, 5, 2, 5, 0, 0, 3, 1, 9, 3,
      7, 0, 4, 5, 7, 6, 7, 8, 2, 4, 9, 2, 1, 9, 3, 6, 5, 6, 2, 3, 6, 6, 9, 8, 6,
      3, 6, 5, 8, 4, 8, 0, 7, 5, 7, 0, 0, 1, 5, 8, 5, 7, 6, 9, 2, 6, 9, 9, 0, 3,
      7, 0, 6, 3, 1, 1, 9, 2, 8, 2, 7, 9, 5, 5, 8, 5, 5, 1, 3, 3, 2, 9, 2, 7, 8,
      3, 4, 3, 3, 8, 4, 0, 9, 3, 5, 1, 9, 7, 8, 0, 1, 5, 5, 3, 1, 2, 4, 6, 5, 9,
      7, 2, 6, 3, 5, 7, 9, 5, 7, 4, 6, 2, 2, 7, 6, 6, 4, 6, 5, 2, 7, 2, 8, 2, 7,
      2, 2, 0, 0, 5, 6, 3, 7, 4, 0, 0, 6, 4, 8, 5, 4, 9, 9, 9, 7, 7, 0, 9, 6, 5,
      9, 9, 4, 7, 0, 4, 5, 4, 0, 2, 0, 8, 2, 8, 1, 6, 6, 2, 2, 6, 2, 3, 7, 8, 5,
      7, 3, 9, 3, 4, 5, 0, 7, 3, 6, 3, 3, 9, 0, 0, 7, 9, 6, 7, 7, 6, 1, 9, 3, 0,
      5, 7, 7, 5, 0, 6, 7, 4, 0, 1, 7, 6, 3, 2, 4, 6, 7, 3, 6, 0, 0, 9, 6, 8, 9,
      5, 1, 3, 4, 0, 5, 3, 5, 5, 3, 7, 4, 5, 8, 5, 1, 6, 6, 6, 1, 1, 3, 4, 2, 2,
      3, 7, 6, 6, 6, 7, 8, 6, 0, 4, 1, 6, 2, 1, 5, 9, 6, 8, 0, 4, 6, 1, 9, 1, 4,
      4, 6, 7, 2, 9, 1, 8, 4, 0, 3, 0, 0, 5, 3, 0, 0, 5, 7, 5, 3, 0, 8, 4, 9, 0,
      4, 8, 7, 6, 5, 3, 9, 1, 7, 1, 1, 3, 8, 6, 5, 9, 1, 6, 4, 6, 2, 3, 9, 5, 2,
      4, 9, 1, 2, 6, 2, 3, 6, 5, 3, 8, 8, 1, 8, 7, 9, 6, 3, 6, 2, 3, 9, 3, 7, 3,
      2, 8, 0, 4, 2, 3, 8, 9, 1, 0, 1, 8, 6, 7, 2, 3, 4, 8, 4, 9, 7, 6, 6, 8, 2,
      3, 5, 0, 8, 9, 8, 6, 3, 3, 8, 8, 5, 8, 7, 9, 2, 5, 6, 2, 8, 3, 0, 2, 7, 5,
      5, 9, 9, 5, 6, 5, 7, 5, 2, 4, 4, 5, 5, 5, 0, 7, 2, 5, 5, 1, 8, 9, 3, 1, 3,
      6, 9, 0, 8, 3, 6, 2, 5, 4, 7, 7, 9, 1, 8, 6, 9, 4, 8, 6, 6, 7, 9, 9, 4, 9,
      6, 8, 3, 2, 4, 0, 4, 9, 7, 0, 5, 8, 2, 1, 0, 2, 8, 5, 1, 3, 1, 8, 5, 4, 5,
      1, 3, 9, 6, 2, 1, 3, 8, 3, 7, 7, 2, 2, 8, 2, 6, 1, 4, 5, 4, 3, 7, 6, 9, 3,
      4, 1, 2, 5, 3, 2, 0, 9, 8, 5, 9, 1, 3, 2, 7, 6, 6, 7, 2, 3, 6, 3, 2, 8, 1,
      2, 5>>

\* The value of the digits of an exponent.  An exponent of 10^9 or more is read
\* as 10^9: with fewer than 10^9 - 400 characters in the string, no literal
\* brings such an exponent back into the range of a double, so the result is
\* the same Infinity or 0.
ExponentValue(ds) ==
    LET ValueOf(significant) ==
            IF Len(significant) > 9 THEN 1000000000
            ELSE DecimalValue(significant)
    IN  ValueOf(StripLeadingZeros(ds))

\* The exponent of the finite, non-zero n written d.ddd... times a power of ten.
Scientific(n) == n.exp + Len(n.digits) - 1

\* The double the finite decimal n is read as: Infinity from 2^1024 - 2^970 on,
\* zero up to 2^-1075, and n itself in between (a double differs from it by
\* rounding in the 17th significant digit).
Rounded(n) ==
    IF n.digits = <<>> THEN n
    ELSE IF \/ Scientific(n) > 308
            \/ Scientific(n) = 308 /\ ~DigitsAbove(OverflowDigits, n.digits)
    THEN Infinite(n.negative)
    ELSE IF \/ Scientific(n) < -324
            \/ Scientific(n) = -324 /\ ~DigitsAbove(n.digits, UnderflowDigits)
    THEN Finite(n.negative, <<>>, 0)
    ELSE n

\* The double a decimal literal denotes.
ToDouble(negative, digits, exp) == Rounded(Finite(negative, digits, exp))

\* parseFloat (script.js:170): leading white space is skipped, then the longest
\* prefix that is a StrDecimalLiteral is read: an optional sign, then
\* "Infinity", or digits with an optional "." and digits and an optional
\* exponent ("e" or "E", optional sign, digits).  What follows is ignored; with
\* no such prefix the result is NaN.  The operators below read the literal
\* left to right, each handing the rest of the string to the next.

\* The exponent after "e" or "E": an optional sign and digits; 0 with no digit.
SignedExponent(rest) ==
    IF rest # <<>> /\ Head(rest) = 45                               \* "-"
    THEN 0 - ExponentValue(DigitValues(DigitPrefix(Tail(rest))))
    ELSE IF rest # <<>> /\ Head(rest) = 43                          \* "+"
    THEN ExponentValue(DigitValues(DigitPrefix(Tail(rest))))
    ELSE ExponentValue(DigitValues(DigitPrefix(rest)))

\* The exponent part at the head of rest, 0 if there is none.
ExponentPart(rest) ==
    IF rest # <<>> /\ Head(rest) \in {101, 69}                     \* "e", "E"
    THEN SignedExponent(Tail(rest))
    ELSE 0

\* The digits before and after the point have been read.
DecimalLiteral(negative, whole, frac, rest) ==
    IF whole = <<>> /\ frac = <<>> THEN NaN
    ELSE ToDouble(negative, DigitValues(whole \o frac),
                  ExponentPart(rest) - Len(frac))

\* The digits before the point have been read: an optional "." and digits.
FractionPart(negative, whole, rest) ==
    IF rest # <<>> /\ Head(rest) = 46                               \* "."
    THEN DecimalLiteral(negative, whole, DigitPrefix(Tail(rest)),
                        Drop(rest, 1 + Len(DigitPrefix(Tail(rest)))))
    ELSE DecimalLiteral(negative, whole, <<>>, rest)

\* The sign has been read: "Infinity", or a decimal literal.
UnsignedLiteral(negative, rest) ==
    IF StartsWith(rest, <<73, 110, 102, 105, 110, 105, 116, 121>>)  \* "Infinity"
    THEN Infinite(negative)
    ELSE FractionPart(negative, DigitPrefix(rest),
                      Drop(rest, Len(DigitPrefix(rest))))

\* The white space has been skipped: an optional sign.
SignedLiteral(rest) ==
    IF rest # <<>> /\ Head(rest) \in {45, 43}                      \* "-", "+"
    THEN UnsignedLiteral(Head(rest) = 45, Tail(rest))
    ELSE UnsignedLiteral(FALSE, rest)

ParseFloat(s) == SignedLiteral(TrimStart(s))

\* The mutant of FormIsValid that forgets the description.
FormIsValidNoDescription(date, description, amount) ==
    ~(date = "" \/ IsFalsy(amount) \/ IsAtMostZero(amount))

\* The negation of the test at script.js:172,
\*     !date || !description || !amount || amount <= 0
FormIsValid(date, description, amount) ==
    ~(date = "" \/ description = <<>> \/ IsFalsy(amount) \/ IsAtMostZero(amount))

\* `if (this.editingId)` (script.js:180): the submit is an update.
SubmitIsUpdate(id) == id # NoId

----------------------------------------------------------------------------
(* The data manager (GitHubDataManager) and the remote store client,       *)
(* modelled from spec.md 2 to 7.                                           *)
(*                                                                         *)
(* dm = [constructed: script.js:24 ran, loaded: a load has succeeded,      *)
(*       year, month: the loaded month (NoMonth before the first load),    *)
(*       data: the in-memory document].                                    *)
(* A mutation changes the in-memory document in place, then serializes and *)
(* persists the whole document (spec.md 2: "mutates in-memory state ->     *)
(* serializes and calls Remote Store Client to persist"; 4.2: "once loaded *)
(* it is mutated in place").  A failed round trip does nothing to the      *)
(* in-memory state (spec.md 5: it "simply leaves in-memory state           *)
(* unchanged"): the spec describes no step that undoes the change.         *)

NoTransaction ==
    [id |-> NoId, date |-> "", description |-> <<>>,
     amount |-> Finite(FALSE, <<>>, 0)]

\* findTransaction's "not found" sentinel.
NotFound ==
    [found |-> FALSE, transaction |-> NoTransaction, type |-> "", index |-> 0]

\* The list of the document a category is kept in.
ListOf(type) == IF type = "income" THEN "income" ELSE "expenses"

\* Linear scan: the first position of id in list, 0 if none.
IndexOf(list, id) ==
    IF \E i \in 1..Len(list) : list[i].id = id
    THEN CHOOSE i \in 1..Len(list) :
            list[i].id = id /\ \A j \in 1..(i - 1) : list[j].id # id
    ELSE 0

\* findTransaction(id) on document `data`: { transaction, category } (with the
\* position, which update and delete use), or the sentinel.
findTransaction(data, id) ==
    LET Located(i, e) ==
            IF i > 0
            THEN [found |-> TRUE, transaction |-> data.income[i],
                  type |-> "income", index |-> i]
            ELSE IF e > 0
            THEN [found |-> TRUE, transaction |-> data.expenses[e],
                  type |-> "expense", index |-> e]
            ELSE NotFound
    IN  Located(IndexOf(data.income, id), IndexOf(data.expenses, id))

\* The ids of the transactions of a document.
IdsOf(data) ==
    { data.income[i].id : i \in 1..Len(data.income) }
        \cup { data.expenses[i].id : i \in 1..Len(data.expenses) }

\* The ids addTransaction may generate (spec.md 4.2: "generates a fresh unique
\* id"; 3: unique within its month's document, not globally): any id that is
\* not in the document.
FreshIds(data) == Ids \ IdsOf(data)

\* addTransaction's validation (spec.md 4.2): amount > 0, description
\* non-empty, date well-formed.
FieldsAreValid(fields) ==
    /\ IsPositive(fields.amount)
    /\ fields.description # <<>>
    /\ DateRank(fields.date) > 0

\* addTransaction: appends to the list of the category.
Appended(data, transaction, type) ==
    [data EXCEPT ![ListOf(type)] = Append(@, transaction)]

\* updateTransaction: date, description and amount replaced in place.
Replaced(data, at, fields) ==
    [data EXCEPT ![ListOf(at.type)][at.index] =
        [id |-> @.id, date |-> fields.date,
         description |-> fields.description, amount |-> fields.amount]]

\* deleteTransaction: the entry removed from its list.
Removed(data, at) ==
    [data EXCEPT ![ListOf(at.type)] =
        SubSeq(@, 1, at.index - 1) \o SubSeq(@, at.index + 1, Len(@))]

\* The document the manager holds of a month: it holds one month; asked for
\* another it holds no transaction of it.
DocumentOf(d, year, month) ==
    IF d.year = year /\ d.month = month THEN d.data ELSE EmptyDocument

\* A list of transactions, each tagged with its category.
Tagged(list, type) ==
    [i \in 1..Len(list) |->
        [id |-> list[i].id, date |-> list[i].date,
         description |-> list[i].description, amount |-> list[i].amount,
         type |-> type]]

\* Insertion of t into a date-sorted sequence, after the entries of its date.
RECURSIVE InsertByDate(_, _)
InsertByDate(sorted, t) ==
    IF sorted = <<>> THEN <<t>>
    ELSE IF DateRank(t.date) < DateRank(Head(sorted).date)
    THEN <<t>> \o sorted
    ELSE <<Head(sorted)>> \o InsertByDate(Tail(sorted), t)

RECURSIVE SortByDate(_)
SortByDate(list) ==
    IF list = <<>> THEN <<>>
    ELSE InsertByDate(SortByDate(SubSeq(list, 1, Len(list) - 1)), list[Len(list)])

\* getAllTransactionsForMonth(year, month) (spec.md 4.2): income and expenses
\* merged, by date ascending, insertion order breaking ties.
getAllTransactionsForMonth(d, year, month) ==
    SortByDate(Tagged(DocumentOf(d, year, month).income, "income")
                \o Tagged(DocumentOf(d, year, month).expenses, "expense"))

\* A number as JSON holds it (spec.md 6: the document is a JSON object, amount
\* a number): JSON has no NaN and no infinity, which are written as null; a
\* finite number is written in full and -0 as 0.
ToJson(n) ==
    IF n.kind \in {"nan", "inf"} THEN Null
    ELSE IF n.kind = "num" /\ n.digits = <<>> THEN Finite(FALSE, <<>>, 0)
    ELSE n

\* A list of transactions, serialized and parsed back.
ListToJson(list) ==
    [i \in 1..Len(list) |-> [list[i] EXCEPT !.amount = ToJson(@)]]

\* The document as the JSON text written to the store holds it.
Serialized(data) ==
    [income |-> ListToJson(data.income), expenses |-> ListToJson(data.expenses)]

\* fetchDocument (spec.md 4.1): the parsed document at the month's path, empty
\* if none.
FetchDocument(store, year, month) ==
    [income   |-> store[[year |-> year, month |-> month]].income,
     expenses |-> store[[year |-> year, month |-> month]].expenses]

\* saveDocument (spec.md 4.1): the serialized document written whole, last
\* write wins.
SaveDocument(store, year, month, document) ==
    [store EXCEPT ![[year |-> year, month |-> month]] =
        [income |-> document.income, expenses |-> document.expenses,
         exists |-> TRUE]]

\* A round trip in flight: the request (kind, path, serialized document) and
\* the id the awaiting handler acts on.  `stale` marks a load whose data
\* manager is no longer this.dataManager (init() ran again).
\* `before` records, for the properties below, the in-memory document when
\* the operation started.
NoOp ==
    [kind |-> "none", year |-> "", month |-> "", id |-> NoId,
     document |-> EmptyDocument, before |-> EmptyDocument, stale |-> FALSE]

\* loadMonthData(year, month) up to its remote call.
dmLoadMonthData(d, year, month) ==
    [error |-> "", dm |-> d,
     op |-> [NoOp EXCEPT !.kind = "load", !.year = year, !.month = month]]

\* addTransaction(fields, category) up to its remote call, `id` being the id
\* it generates.
dmAddTransaction(d, fields, type, id) ==
    IF ~d.loaded
    THEN [error |-> "NotLoadedError", dm |-> d, op |-> NoOp]
    ELSE IF ~FieldsAreValid(fields)
    THEN [error |-> "ValidationError", dm |-> d, op |-> NoOp]
    ELSE LET Added(data) ==
                [error |-> "",
                 dm |-> [d EXCEPT !.data = data],
                 op |-> [NoOp EXCEPT !.kind = "add", !.year = d.year,
                                     !.month = d.month, !.id = id,
                                     !.document = Serialized(data),
                                     !.before = d.data]]
         IN  Added(Appended(d.data,
                            [id |-> id, date |-> fields.date,
                             description |-> fields.description,
                             amount |-> fields.amount], type))

\* updateTransaction(id, fields) up to its remote call.
dmUpdateTransaction(d, id, fields) ==
    IF ~d.loaded
    THEN [error |-> "NotLoadedError", dm |-> d, op |-> NoOp]
    ELSE IF ~findTransaction(d.data, id).found
    THEN [error |-> "NotFoundError", dm |-> d, op |-> NoOp]
    ELSE LET Updated(data) ==
                [error |-> "",
                 dm |-> [d EXCEPT !.data = data],
                 op |-> [NoOp EXCEPT !.kind = "update", !.year = d.year,
                                     !.month = d.month, !.id = id,
                                     !.document = Serialized(data),
                                     !.before = d.data]]
         IN  Updated(Replaced(d.data, findTransaction(d.data, id), fields))

\* deleteTransaction(id) up to its remote call.
dmDeleteTransaction(d, id) ==
    IF ~d.loaded
    THEN [error |-> "NotLoadedError", dm |-> d, op |-> NoOp]
    ELSE IF ~findTransaction(d.data, id).found
    THEN [error |-> "NotFoundError", dm |-> d, op |-> NoOp]
    ELSE LET Deleted(data) ==
                [error |-> "",
                 dm |-> [d EXCEPT !.data = data],
                 op |-> [NoOp EXCEPT !.kind = "delete", !.year = d.year,
                                     !.month = d.month, !.id = id,
                                     !.document = Serialized(data),
                                     !.before = d.data]]
         IN  Deleted(Removed(d.data, findTransaction(d.data, id)))

\* loadMonthData when its fetch answered: the in-memory state is replaced.
Loaded(d, store, op) ==
    [d EXCEPT !.loaded = TRUE, !.year = op.year, !.month = op.month,
              !.data = FetchDocument(store, op.year, op.month)]

----------------------------------------------------------------------------
(* The application (class Ledgerly).                                       *)

\* The queue of round trips without its i-th.
Dequeued(queue, i) == SubSeq(queue, 1, i - 1) \o SubSeq(queue, i + 1, Len(queue))

\* renderTransactions (script.js:291-319) with the manager d throws: a row's
\* amount is null, and formatCurrency calls amount.toFixed (script.js:310, 325).
RenderThrows(d, year, month) ==
    \E i \in 1..Len(getAllTransactionsForMonth(d, year, month)) :
        getAllTransactionsForMonth(d, year, month)[i].amount.kind = "null"

\* The alerts of script.js, as the pieces of their text.
NoAlert == <<>>

\* script.js:34
InitAlert ==
    <<"Error initializing application. Please check your GitHub configuration.">>

\* script.js:173
InvalidAlert == <<"Please fill all fields with valid data">>

\* script.js:227
NotFoundAlert == <<"Transaction not found">>

\* script.js:46
LoadAlert ==
    <<"Error loading data from GitHub. Please check your connection and configuration.">>

\* script.js:201, 259: 'Error: ' + error.message.  The message is given by the
\* kind of the error: an error kind of spec.md 7 when the data manager fails,
\* "TypeError" when the code calls a method on null.
ErrorAlert(message) == <<"Error: ", message>>

\* The remote store when the page opens: what earlier sessions left in it.  One
\* month holds a document with one transaction, the other has no document.
StoredBefore ==
    [m \in Months |->
        IF m.month = "01"
        THEN [income |-> <<[id |-> 1, date |-> "2024-01-10",
                            description |-> <<97>>,
                            amount |-> Finite(FALSE, <<1>>, 1)]>>,
              expenses |-> <<>>, exists |-> TRUE]
        ELSE Absent]

\* this.dataManager = null (script.js:12).
NoDataManager ==
    [constructed |-> FALSE, loaded |-> FALSE, year |-> NoMonth.year,
     month |-> NoMonth.month, data |-> EmptyDocument]

\* new GitHubDataManager(client) (script.js:24): a manager with no month
\* loaded.
NewDataManager ==
    [constructed |-> TRUE, loaded |-> FALSE, year |-> NoMonth.year,
     month |-> NoMonth.month, data |-> EmptyDocument]

\* The round trips in flight once this.dataManager is replaced: the loads
\* among them are the replaced manager's.
Staled(queue) ==
    [i \in 1..Len(queue) |-> [queue[i] EXCEPT !.stale = (queue[i].kind = "load")]]

\* The state after `new Ledgerly()`: the constructor sets the fields and calls
\* init() (script.js:10-36), which runs to its first await or to its catch.
\*   "construction": the construction of the client or of the manager throws
\*       (script.js:23-24; GITHUB_CONFIG is not defined, or a constructor
\*       refuses it).  The manager is null, no listener is registered, no
\*       load starts, and the catch block alerts (script.js:32-35).
\*   "theme": loadThemePreference throws (script.js:26, 86; localStorage is
\*       not accessible).  The manager is constructed; the rest is as above.
\*   "none": init registers the listeners, sets the month to today's and runs
\*       to the await of loadCurrentMonth (script.js:27-31, 39-42, 138-143).
Init ==
    /\ editingId = NoId
    /\ transactionType = "income"
    /\ remote = StoredBefore
    /\ \E thrown \in {"construction", "theme", "none"} :
          IF thrown = "none"
          THEN /\ \E today \in SelectorValues :
                    /\ currentYear = today.year
                    /\ currentMonth = today.month
                    /\ pending = <<dmLoadMonthData(NewDataManager, today.year,
                                                   today.month).op>>
               /\ dm = NewDataManager
               /\ listening = TRUE
               /\ alerted = NoAlert
               /\ roundTrips = 1
          ELSE /\ currentYear = NoMonth.year
               /\ currentMonth = NoMonth.month
               /\ pending = <<>>
               /\ dm = IF thrown = "construction" THEN NoDataManager
                       ELSE NewDataManager
               /\ listening = FALSE
               /\ alerted = InitAlert
               /\ roundTrips = 0

\* init() called again (script.js:20-36), with the three outcomes of Init.
\* When the construction throws, this.dataManager keeps the manager it had;
\* past script.js:24 it is a new manager with no month loaded, and the round
\* trips in flight are the replaced manager's.
InitCalled(thrown) ==
    /\ UNCHANGED <<editingId, transactionType, remote>>
    /\ CASE thrown = "construction" ->
              /\ alerted' = InitAlert
              /\ UNCHANGED <<currentYear, currentMonth, dm, pending, listening,
                             roundTrips>>
         [] thrown = "theme" ->
              /\ dm' = NewDataManager
              /\ pending' = Staled(pending)
              /\ alerted' = InitAlert
              /\ UNCHANGED <<currentYear, currentMonth, listening, roundTrips>>
         [] thrown = "none" ->
              /\ Len(pending) < MaxInFlight
              /\ roundTrips < MaxRoundTrips
              /\ roundTrips' = roundTrips + 1
              /\ dm' = NewDataManager
              /\ listening' = TRUE
              /\ \E today \in SelectorValues :
                    /\ currentYear' = today.year
                    /\ currentMonth' = today.month
                    /\ pending' = Append(Staled(pending),
                                         dmLoadMonthData(NewDataManager, today.year,
                                                         today.month).op)
              /\ alerted' = NoAlert

\* setupEventListeners() (script.js:100-133).
SetupEventListeners ==
    /\ listening' = TRUE
    /\ alerted' = NoAlert
    /\ UNCHANGED <<currentYear, currentMonth, editingId, transactionType, dm,
                   remote, pending, roundTrips>>

\* setCurrentMonth() (script.js:138-143): the month of the system clock,
\* `today`.
SetCurrentMonth(today) ==
    /\ currentYear' = today.year
    /\ currentMonth' = today.month
    /\ alerted' = NoAlert
    /\ UNCHANGED <<editingId, transactionType, dm, remote, pending,
                   roundTrips, listening>>

\* loadCurrentMonth() up to its await, for the month (year, month) that
\* this.currentYear and this.currentMonth hold (script.js:39-42).  With
\* this.dataManager null the member access at script.js:42 throws a TypeError,
\* which the catch block answers with the load alert (script.js:44-46).
LoadStarted(year, month) ==
    IF ~dm.constructed
    THEN /\ alerted' = LoadAlert
         /\ UNCHANGED <<pending, roundTrips>>
    ELSE /\ Len(pending) < MaxInFlight
         /\ roundTrips < MaxRoundTrips
         /\ roundTrips' = roundTrips + 1
         /\ pending' = Append(pending, dmLoadMonthData(dm, year, month).op)
         /\ alerted' = NoAlert

\* loadCurrentMonth() up to its await (script.js:39-42).
LoadCurrentMonth ==
    /\ LoadStarted(currentYear, currentMonth)
    /\ UNCHANGED <<currentYear, currentMonth, editingId, transactionType, dm,
                   remote, listening>>

\* The month selector's change listener up to its await (script.js:102-106,
\* 39-42).  The listener is an anonymous function: it runs only once
\* setupEventListeners has registered it.
MonthSelectorChange(value) ==
    /\ listening
    /\ currentYear' = value.year
    /\ currentMonth' = value.month
    /\ LoadStarted(value.year, value.month)
    /\ UNCHANGED <<editingId, transactionType, dm, remote, listening>>

\* loadCurrentMonth after its await (script.js:43-49): render, whose throw is
\* caught by the catch block, which alerts.  The load of a replaced manager
\* leaves this.dataManager as it is.
LoadAnswered(i, ok) ==
    /\ i \in 1..Len(pending)
    /\ pending[i].kind = "load"
    /\ pending' = Dequeued(pending, i)
    /\ IF ok
       THEN /\ dm' = IF pending[i].stale THEN dm
                     ELSE Loaded(dm, remote, pending[i])
            /\ alerted' = IF RenderThrows(dm', currentYear, currentMonth)
                          THEN LoadAlert ELSE NoAlert
       ELSE /\ alerted' = LoadAlert
            /\ UNCHANGED dm
    /\ UNCHANGED <<currentYear, currentMonth, editingId, transactionType, remote,
                   roundTrips, listening>>

\* render(), renderSummary() and renderTransactions() called on their own
\* (script.js:268-319): they write the page, or throw a TypeError nothing
\* catches (this.dataManager null at script.js:274 or 292, a null amount at
\* script.js:325); nothing is alerted.
Render ==
    /\ alerted' = NoAlert
    /\ UNCHANGED <<currentYear, currentMonth, editingId, transactionType, dm,
                   remote, pending, roundTrips, listening>>

\* setTransactionType(type) (script.js:148-161), which the two toggle buttons
\* call (script.js:110-116).
SetTransactionType(type) ==
    /\ transactionType' = type
    /\ alerted' = NoAlert
    /\ UNCHANGED <<currentYear, currentMonth, editingId, dm, remote,
                   pending, roundTrips, listening>>

\* handleFormSubmit once the data manager was called (script.js:180-204): the
\* catch and finally blocks when the call failed before any remote call, else
\* the await of its round trip.
Called(call) ==
    IF call.error # ""
    THEN [called |-> TRUE, awaits |-> FALSE, alerted |-> ErrorAlert(call.error),
          editingId |-> editingId, dm |-> dm, remote |-> remote,
          pending |-> pending]
    ELSE [called |-> TRUE, awaits |-> TRUE, alerted |-> NoAlert,
          editingId |-> editingId, dm |-> call.dm, remote |-> remote,
          pending |-> Append(pending, call.op)]

\* handleFormSubmit once the fields are read (script.js:172-204): the
\* validation, then the update of the edited transaction or the add.  With
\* this.dataManager null the member access at script.js:182 or 190 throws a
\* TypeError, which the catch block alerts: no manager is called.  `id` is the
\* id addTransaction generates if it is reached.
Submitted(date, description, amount, id) ==
    IF ~FormIsValid(date, description, amount)
    THEN [called |-> FALSE, awaits |-> FALSE, alerted |-> InvalidAlert,
          editingId |-> editingId, dm |-> dm, remote |-> remote,
          pending |-> pending]
    ELSE IF ~dm.constructed
    THEN [called |-> FALSE, awaits |-> FALSE,
          alerted |-> ErrorAlert("TypeError"),
          editingId |-> editingId, dm |-> dm, remote |-> remote,
          pending |-> pending]
    ELSE IF SubmitIsUpdate(editingId)
    THEN Called(dmUpdateTransaction(dm, editingId,
                    [date |-> date, description |-> description,
                     amount |-> amount]))
    ELSE Called(dmAddTransaction(dm,
                    [date |-> date, description |-> description,
                     amount |-> amount], transactionType, id))

\* What handleFormSubmit does up to its await (script.js:166-204): whether the
\* data manager was called, whether a round trip is awaited, the alert, and
\* the fields the handler and the manager's call leave behind.
handleFormSubmit(dateInput, descriptionInput, amountInput, id) ==
    Submitted(dateInput, Trim(descriptionInput), ParseFloat(amountInput), id)

\* The fields of the submitted forms as handleFormSubmit reads them
\* (script.js:167-170): the date as it is, the description trimmed, the amount
\* parsed.
FieldsRead ==
    { [date |-> form.date, description |-> Trim(form.description),
       amount |-> ParseFloat(form.amount)] : form \in FormInputs }

\* handleFormSubmit() up to its await, which the form's submit listener calls
\* (script.js:119-122), the fields being read (script.js:167-170); `id` is the
\* id addTransaction generates if it is reached.  A round trip starts only
\* within the bounds of the model, and an add generates an id that is not in
\* the document.
HandleFormSubmit(date, description, amount) ==
    \E id \in Ids :
        LET result == Submitted(date, description, amount, id)
        IN  /\ result.awaits =>
                 /\ Len(pending) < MaxInFlight
                 /\ roundTrips < MaxRoundTrips
                 /\ ~SubmitIsUpdate(editingId) => id \in FreshIds(dm.data)
            /\ roundTrips' = IF result.awaits THEN roundTrips + 1
                             ELSE roundTrips
            /\ alerted' = result.alerted
            /\ editingId' = result.editingId
            /\ dm' = result.dm
            /\ remote' = result.remote
            /\ pending' = result.pending
            /\ UNCHANGED <<currentYear, currentMonth, transactionType,
                           listening>>

\* handleFormSubmit after its await (script.js:187, 197-204).  When the round
\* trip succeeded: resetForm (script.js:207-215), then render, whose throw is
\* caught by the catch block, which alerts its message.  When it failed: the
\* catch block logs and alerts (script.js:199-201), no more.
SubmitAnswered(i, ok) ==
    /\ i \in 1..Len(pending)
    /\ pending[i].kind \in {"add", "update"}
    /\ pending' = Dequeued(pending, i)
    /\ IF ok
       THEN /\ remote' = SaveDocument(remote, pending[i].year, pending[i].month,
                                      pending[i].document)
            /\ editingId' = NoId
            /\ transactionType' = "income"
            /\ alerted' = IF RenderThrows(dm, currentYear, currentMonth)
                          THEN ErrorAlert("TypeError") ELSE NoAlert
       ELSE /\ alerted' = ErrorAlert("NetworkError")
            /\ UNCHANGED <<remote, editingId, transactionType>>
    /\ UNCHANGED <<currentYear, currentMonth, dm, roundTrips, listening>>

\* cancelEdit and resetForm (script.js:217-219, 207-215), which the cancel
\* button calls (script.js:125-127).
CancelEdit ==
    /\ transactionType' = "income"
    /\ editingId' = NoId
    /\ alerted' = NoAlert
    /\ UNCHANGED <<currentYear, currentMonth, dm, remote, pending,
                   roundTrips, listening>>

\* editTransaction(id) (script.js:224-247), which a row's edit button calls
\* through `app` (script.js:313).  With this.dataManager null the member
\* access at script.js:225 throws a TypeError nothing catches: no field is set
\* and nothing is alerted.
EditTransaction(id) ==
    /\ IF ~dm.constructed
       THEN /\ alerted' = NoAlert
            /\ UNCHANGED <<editingId, transactionType>>
       ELSE IF ~findTransaction(dm.data, id).found
       THEN /\ alerted' = NotFoundAlert
            /\ UNCHANGED <<editingId, transactionType>>
       ELSE /\ editingId' = id
            /\ transactionType' = findTransaction(dm.data, id).type
            /\ alerted' = NoAlert
    /\ UNCHANGED <<currentYear, currentMonth, dm, remote, pending,
                   roundTrips, listening>>

\* deleteTransaction(id) up to its await (script.js:249-255), which a row's
\* delete button calls through `app` (script.js:314), `confirmed` being the
\* answer to confirm(); with catch and finally when the call fails before any
\* remote call.  With this.dataManager null the member access at script.js:255
\* throws a TypeError, which the catch block alerts.
DeleteTransaction(id, confirmed) ==
    /\ UNCHANGED <<currentYear, currentMonth, editingId, transactionType,
                   remote, listening>>
    /\ IF ~confirmed
       THEN /\ alerted' = NoAlert
            /\ UNCHANGED <<dm, pending, roundTrips>>
       ELSE IF ~dm.constructed
       THEN /\ alerted' = ErrorAlert("TypeError")
            /\ UNCHANGED <<dm, pending, roundTrips>>
       ELSE IF dmDeleteTransaction(dm, id).error # ""
       THEN /\ alerted' = ErrorAlert(dmDeleteTransaction(dm, id).error)
            /\ UNCHANGED <<dm, pending, roundTrips>>
       ELSE /\ Len(pending) < MaxInFlight
            /\ roundTrips < MaxRoundTrips
            /\ roundTrips' = roundTrips + 1
            /\ dm' = dmDeleteTransaction(dm, id).dm
            /\ pending' = Append(pending, dmDeleteTransaction(dm, id).op)
            /\ alerted' = NoAlert

\* deleteTransaction after its await (script.js:256-262): render when the
\* round trip succeeded, whose throw is caught by the catch block; when it
\* failed the catch block logs and alerts (script.js:257-259), no more.
DeleteAnswered(i, ok) ==
    /\ i \in 1..Len(pending)
    /\ pending[i].kind = "delete"
    /\ pending' = Dequeued(pending, i)
    /\ IF ok
       THEN /\ remote' = SaveDocument(remote, pending[i].year, pending[i].month,
                                      pending[i].document)
            /\ alerted' = IF RenderThrows(dm, currentYear, currentMonth)
                          THEN ErrorAlert("TypeError") ELSE NoAlert
       ELSE /\ alerted' = ErrorAlert("NetworkError")
            /\ UNCHANGED remote
    /\ UNCHANGED <<currentYear, currentMonth, editingId, transactionType, dm,
                   roundTrips, listening>>

Next ==
    \/ \E thrown \in {"construction", "theme", "none"} : InitCalled(thrown)
    \/ SetupEventListeners
    \/ \E today \in SelectorValues : SetCurrentMonth(today)
    \/ LoadCurrentMonth
    \/ Render
    \/ \E value \in SelectorValues : MonthSelectorChange(value)
    \/ \E i \in 1..MaxInFlight, ok \in BOOLEAN : LoadAnswered(i, ok)
    \/ \E type \in Types : SetTransactionType(type)
    \/ \E fields \in FieldsRead :
            HandleFormSubmit(fields.date, fields.description, fields.amount)
    \/ \E i \in 1..MaxInFlight, ok \in BOOLEAN : SubmitAnswered(i, ok)
    \/ CancelEdit
    \/ \E id \in Ids : EditTransaction(id)
    \/ \E id \in Ids, confirmed \in BOOLEAN : DeleteTransaction(id, confirmed)
    \/ \E i \in 1..MaxInFlight, ok \in BOOLEAN : DeleteAnswered(i, ok)

Spec == Init /\ [][Next]_vars

----------------------------------------------------------------------------
(* Properties.                                                             *)

\* A step in which a handler runs render(): the continuation of a round trip
\* that succeeded (script.js:43, 198, 256).
Renders ==
    \E i \in DOMAIN pending :
        LoadAnswered(i, TRUE) \/ SubmitAnswered(i, TRUE) \/ DeleteAnswered(i, TRUE)

\* A step in which the round trip of a mutation fails.
MutationFails(i) == SubmitAnswered(i, FALSE) \/ DeleteAnswered(i, FALSE)

\* The description inputs that are empty after trimming: " \t" and
\* "\u000B\u3000".
BlankDescriptions == { <<32, 9>>, <<11, 12288>> }

\* The amount inputs that are missing (""), not a number ("a", "."), or a
\* number <= 0 ("0", "-5", "1e-400", "-Infinity").
RefusedAmounts ==
    { <<>>, <<97>>, <<46>>, <<48>>, <<45, 53>>, <<49, 101, 45, 52, 48, 48>>,
      <<45, 73, 110, 102, 105, 110, 105, 116, 121>> }

\* C2: in every reachable state every transaction of the in-memory document, in
\* the income list and in the expenses list, has amount > 0.
C2_AmountsPositive ==
    /\ \A i \in DOMAIN dm.data.income : IsPositive(dm.data.income[i].amount)
    /\ \A i \in DOMAIN dm.data.expenses : IsPositive(dm.data.expenses[i].amount)

\* The fields handleFormSubmit reads (script.js:167-170) from the submissions
\* with an empty date, one of BlankDescriptions or one of RefusedAmounts.
RefusedFields ==
    { [date |-> d, description |-> Trim(s), amount |-> ParseFloat(a)] :
        <<d, s, a>> \in
            { x \in DateInputs \X DescriptionInputs \X AmountInputs :
                x[1] = "" \/ x[2] \in BlankDescriptions \/ x[3] \in RefusedAmounts } }

\* C3: in every reachable state, a submission with an empty date, a
\* description empty after trimming, or an amount that is missing, not a number
\* or <= 0 is refused by the form itself (its own alert), with no call on the
\* data manager: no round trip starts, nothing is persisted, and the in-memory
\* ledger and editingId are unchanged.
C3_InvalidSubmissionRejected ==
    \A fields \in RefusedFields, id \in Ids :
        LET result == Submitted(fields.date, fields.description, fields.amount, id)
        IN  /\ ~result.called
            /\ ~result.awaits
            /\ result.alerted = InvalidAlert
            /\ result.dm = dm
            /\ result.remote = remote
            /\ result.pending = pending
            /\ result.editingId = editingId

\* A submission was refused while a transaction of the loaded month was being
\* edited.
C3_Witness ==
    /\ alerted = InvalidAlert
    /\ editingId # NoId
    /\ dm.year # NoMonth.year

\* C4: when the round trip of an add, update or delete fails, the in-memory
\* document is the one from before the operation started, the error is
\* alerted, and no further request is issued for the operation.
C4_FailureLeavesLedgerUnchanged ==
    [][ \A i \in DOMAIN pending :
            MutationFails(i) =>
                /\ dm'.data = pending[i].before
                /\ alerted' = ErrorAlert("NetworkError")
                /\ pending' = Dequeued(pending, i)
                /\ roundTrips' = roundTrips ]_vars

\* C7: a mutation (add, update or delete) never starts while an earlier round
\* trip (a mutation or a month load) is still in flight.  The queue is in
\* order of start.
C7_OneMutationInFlight ==
    \A j \in DOMAIN pending : j > 1 => pending[j].kind = "load"

\* C9: whenever render() runs, the (year, month) it passes to
\* calculateMonthlySummary and getAllTransactionsForMonth, the UI's
\* currentYear/currentMonth, is the month loaded in the data manager.
C9_RenderAsksLoadedMonth ==
    [][ Renders => (currentYear' = dm'.year /\ currentMonth' = dm'.month) ]_vars

\* C10: editingId, when not null, is the id of a transaction of the loaded
\* document (stated for the states with no round trip in flight).
C10_EditingIdIsPresent ==
    (pending = <<>> /\ editingId # NoId) => editingId \in IdsOf(dm.data)

====
